---- MODULE Spec2Model ----
(***************************************************************************)
(* Model of infer_google_vision_landmark_detection_process.py: the         *)
(* parameter object InferGoogleVisionLandmarkDetectionParam and the task   *)
(* InferGoogleVisionLandmarkDetection (its constructor and run()).         *)
(*                                                                         *)
(* Conventions.  Scores and thresholds are floats in the source; they are  *)
(* modelled as integers counting hundredths (0.2 is 20).  Python strings   *)
(* built by formatting are modelled as sequences of chunks (tuples), in    *)
(* the order the format string lays them out.  Python None is the empty    *)
(* sequence <<>>; an object reference is a one-element sequence.           *)
(*                                                                         *)
(* run() has no try/except: an exception of ImageAnnotatorClient(), of     *)
(* cv2.imencode or of landmark_detection ends it where it is thrown.       *)
(*                                                                         *)
(* run() reads the parameter object at line 75, at line 76 and in every    *)
(* iteration of the loop (line 99), and blocks in the call of line 84; it  *)
(* is cut into steps at these points.  set_values (lines 21-25) has no     *)
(* guard and run() takes no lock: a caller on another thread can write the *)
(* parameter object between any two steps of a run, and the rest of the    *)
(* run reads what it wrote.  set_values itself is one step: the parameter  *)
(* object between its two assignments is the one a set_values with the old *)
(* credentials leaves.  The source starts no thread itself; undisturbed    *)
(* records whether the parameters kept their values during the latest run, *)
(* which is how a host that calls set_values and run() one after the other *)
(* uses the task.                                                          *)
(***************************************************************************)
EXTENDS Integers, Sequences, FiniteSets, TLC

VARIABLES
    param,        \* the task's parameter object (conf_thres, google_application_credentials)
    client,       \* self.client: <<>> is None, <<c>> a constructed ImageAnnotatorClient
    environ,      \* os.environ['GOOGLE_APPLICATION_CREDENTIALS'] (NoEnv when unset)
    names,        \* the task's class names, as last given to set_names
    output_dict,  \* data of the DataDictIO output (slot 2)
    response,     \* <<r>>: what client.landmark_detection returned in the latest
                  \* run(); <<>> while it has not returned, or when it raised
    added,        \* the add_object calls of the latest run(), in order
    stdout,       \* the lines printed by the latest run(), in order
    raised,       \* <<>> when the latest run() returned, else the exception's text
    calls,        \* the host, SDK and OS calls of the latest run(), in order
    ran,          \* whether run() has been invoked
    pc,           \* where run() is: "idle" (not running), "setenv" (before line
                  \* 76), "calling" (in landmark_detection), "loop" (before line 99)
    i,            \* in "loop": the 1-based position of the landmark to look at
    undisturbed   \* history: no set_values has changed param since the latest
                  \* run() began

vars == <<param, client, environ, names, output_dict, response, added, stdout,
          raised, calls, ran, pc, i, undisturbed>>

-----------------------------------------------------------------------------
(* Bounds of the model *)

MaxLen == 2

-----------------------------------------------------------------------------
(* Input domains *)

NoEnv == "<unset>"

CredentialPaths == {"", "/keys/a.json", "/keys/b.json"}

ThresholdStrings == {"0.1", "0.2"}

Descriptions == {"Eiffel Tower", "Big Ben"}

Scores == {10, 20}

\* An axis-aligned rectangle in the service's usual vertex order, and a
\* polygon in a non-standard order whose four vertices share no coordinate.
Rectangle ==
    << [x |-> 1, y |-> 1], [x |-> 3, y |-> 1], [x |-> 3, y |-> 4], [x |-> 1, y |-> 4] >>

Skewed ==
    << [x |-> 5, y |-> 2], [x |-> 3, y |-> 7], [x |-> 8, y |-> 1], [x |-> 6, y |-> 9] >>

LocationsOf(description) ==
    IF description = "Eiffel Tower"
    THEN << [lat_lng |-> [latitude |-> 48, longitude |-> 2]] >>
    ELSE << >>

\* The polygon alternates so that each description and each score occurs
\* with both polygons' shapes.
PolygonOf(d, s) ==
    IF (d = "Eiffel Tower") = (s = 20) THEN Rectangle ELSE Skewed

Annotation(d, s) ==
    [description   |-> d,
     score         |-> s,
     bounding_poly |-> [vertices |-> PolygonOf(d, s)],
     locations     |-> LocationsOf(d)]

\* The landmarks the service reports: the Eiffel Tower at either score, Big
\* Ben at the lower one
Annotations ==
    { Annotation(d, s) : d \in Descriptions, s \in Scores }
      \ { Annotation("Big Ben", 20) }

SeqsUpTo(S, n) == UNION { [1..k -> S] : k \in 0..n }

ErrorMessages == {"", "Invalid image"}

\* The annotation lists of the responses that report an error
ErrorLists == { <<>> } \cup { <<a>> : a \in Annotations }

Responses ==
    { [error |-> [message |-> ""], landmark_annotations |-> l] :
      l \in SeqsUpTo(Annotations, MaxLen) }
    \cup
    { [error |-> [message |-> m], landmark_annotations |-> l] :
      m \in ErrorMessages \ {""}, l \in ErrorLists }

-----------------------------------------------------------------------------
(* InferGoogleVisionLandmarkDetectionParam *)

DefaultConfThres == 20

ParamInit ==
    [conf_thres |-> DefaultConfThres, google_application_credentials |-> ""]

\* float(s) for the strings the host sends, in hundredths
ParseFloat(s) ==
    CASE s = "0.1" -> 10
      [] s = "0.2" -> 20

ParamSetValues(params) ==
    [conf_thres |-> ParseFloat(params["conf_thres"]),
     google_application_credentials |-> params["google_application_credentials"]]

-----------------------------------------------------------------------------
(* InferGoogleVisionLandmarkDetection.run, piece by piece *)

\* Mutant of ClientMissing: the cached client is never found
ClientMissing_Always(c) == TRUE

\* if self.client is None
ClientMissing(c) == c = <<>>

\* What a failing ImageAnnotatorClient(), cv2.imencode and landmark_detection
\* throw
ConstructorError == << "DefaultCredentialsError" >>

EncodeError == << "cv2.error" >>

TransportError == << "ConnectionError" >>

\* Mutant of HasCredentials: the variable is written whatever the path
HasCredentials_Always(credentials) == TRUE

\* Line 75: if param.google_application_credentials
HasCredentials(credentials) == credentials # ""

\* Lines 77-84, from the constructor (when the client c is missing) to the
\* call of landmark_detection; env is the environment variable as it stands,
\* before the calls made so far.  The SDK client takes its credentials from
\* the variable as it stands when the constructor runs.  built and encoded
\* tell whether ImageAnnotatorClient() and cv2.imencode return or raise; when
\* the constructor raises, self.client stays None.
ConstructAndCall(c, env, before, built, encoded) ==
    LET missing == ClientMissing(c)
        failed  == missing /\ ~ built
        c1      == IF missing THEN before \o <<"ImageAnnotatorClient">> ELSE before
    IN  [client |-> IF missing
                    THEN (IF built THEN << [credentials |-> env] >> ELSE <<>>)
                    ELSE c,
         raised |-> IF failed THEN ConstructorError
                    ELSE IF ~ encoded THEN EncodeError ELSE <<>>,
         calls  |-> IF failed THEN c1
                    ELSE IF ~ encoded THEN c1 \o <<"cv2.imencode">>
                    ELSE c1 \o <<"cv2.imencode", "landmark_detection">>,
         pc     |-> IF failed \/ ~ encoded THEN "idle" ELSE "calling"]

\* Lines 86-90: the text of the raised exception
ErrorText(message) ==
    << message,
       "\nFor more info on error messages, check: ",
       "https://cloud.google.com/apis/design/errors" >>

\* if response.error.message
HasError(resp) == resp.error.message # ""

\* Mutant of Skipped: a score equal to the threshold is skipped too
Skipped_OrEqual(landmark, conf_thres) == landmark.score <= conf_thres

\* Line 99: skip detections with lower score
Skipped(landmark, conf_thres) == landmark.score < conf_thres

\* Mutant of BoxOf: the height is taken from the fourth vertex
BoxOf_FourthVertex(vertices) ==
    LET x_box == vertices[1].x
        y_box == vertices[1].y
    IN  [x |-> x_box,
         y |-> y_box,
         w |-> vertices[2].x - x_box,
         h |-> vertices[4].y - y_box]

\* Lines 102-106
BoxOf(vertices) ==
    LET x_box == vertices[1].x
        y_box == vertices[1].y
    IN  [x |-> x_box,
         y |-> y_box,
         w |-> vertices[2].x - x_box,
         h |-> vertices[3].y - y_box]

\* self.set_names(list): the task's class names become that list
SetNames(old, list) == list

ClassIndex == 0

\* Mutant of LabelList: one generic class name for every landmark
LabelList_Generic(landmark) == << "landmark" >>

\* Lines 108-109: the list given to set_names
LabelList(landmark) == << landmark.description >>

\* Mutant of ObjectId: the enumeration starts at 1
ObjectId_OneBased(pos) == pos

\* Lines 98 and 112: the id given to add_object is enumerate's i, for the
\* landmark at the 1-based position pos of landmarks
ObjectId(pos) == pos - 1

\* self.add_object(id, class_index, confidence, x, y, w, h): the label is the
\* class name at class_index at the time of the call
AddObject(nm, id, class_index, confidence, box) ==
    [id |-> id, class_index |-> class_index, label |-> nm[class_index + 1],
     confidence |-> confidence, x |-> box.x, y |-> box.y, w |-> box.w, h |-> box.h]

\* Line 116, one printed line per location
LocationLine(landmark, location) ==
    << landmark.description, ", Latitude: ", location.lat_lng.latitude,
       ", Longitude: ", location.lat_lng.longitude >>

LocationLines(landmark) ==
    [ k \in 1..Len(landmark.locations) |-> LocationLine(landmark, landmark.locations[k]) ]

\* Mutant of NoLandmarkNotice: the notice is never printed
NoLandmarkNotice_Never(landmarks) == << >>

\* Lines 94-95
NoLandmarkNotice(landmarks) ==
    IF Len(landmarks) = 0 THEN << <<"No landmark detected">> >> ELSE << >>

\* Lines 99-116: one iteration of the loop, for the landmark at position pos,
\* with conf_thres as line 99 reads it. st carries names, added, stdout and
\* calls.
ProcessLandmark(landmark, pos, conf_thres, st) ==
    IF Skipped(landmark, conf_thres) THEN st
    ELSE LET box == BoxOf(landmark.bounding_poly.vertices)
             nm  == SetNames(st.names, LabelList(landmark))
             obj == AddObject(nm, ObjectId(pos), ClassIndex, landmark.score, box)
         IN  [names  |-> nm,
              added  |-> Append(st.added, obj),
              stdout |-> st.stdout \o LocationLines(landmark),
              calls  |-> st.calls \o <<"set_names", "add_object">>]

\* f'{landmarks}'
RenderAnnotation(landmark) ==
    << "description: ", landmark.description,
       "score: ", landmark.score,
       "bounding_poly: ", landmark.bounding_poly.vertices,
       "locations: ", landmark.locations >>

Render(landmarks) ==
    << <<"[">> >> \o [ k \in 1..Len(landmarks) |-> RenderAnnotation(landmarks[k]) ]
                 \o << <<"]">> >>

\* Mutant of OutputData: the loop variable is rendered, not the list
OutputData_LoopVariable(landmarks) ==
    [Landmarks |-> Render(IF landmarks = <<>> THEN <<>>
                          ELSE << landmarks[Len(landmarks)] >>)]

\* Line 118
OutputData(landmarks) == [Landmarks |-> Render(landmarks)]

\* Mutant of Finish: the progress step is not emitted
Finish_NoProgress(before) == before \o <<"end_task_run">>

\* Lines 119-123
Finish(before) == before \o <<"emit_step_progress", "end_task_run">>

\* Mutant of Abort: the error is looked at only after the output is written
Abort_AfterPublish(resp, data, before) ==
    [data   |-> OutputData(resp.landmark_annotations),
     raised |-> ErrorText(resp.error.message),
     calls  |-> before \o <<"raise">>]

\* Lines 86-90, for a response with an error message
Abort(resp, data, before) ==
    [data   |-> data,
     raised |-> ErrorText(resp.error.message),
     calls  |-> before \o <<"raise">>]

-----------------------------------------------------------------------------
(* The state machine *)

EmptyDict == [k \in {} |-> <<>>]

\* What landmark_detection can do: raise (<<>>) or return a response (<<r>>)
Answers == { <<>> } \cup { <<r>> : r \in Responses }

\* InferGoogleVisionLandmarkDetection.__init__ with param None
Init ==
    /\ param = ParamInit
    /\ client = <<>>
    /\ environ = NoEnv
    /\ names = <<>>
    /\ output_dict = [data |-> EmptyDict]
    /\ response = <<>>
    /\ added = <<>>
    /\ stdout = <<>>
    /\ raised = <<>>
    /\ calls = <<>>
    /\ ran = FALSE
    /\ pc = "idle"
    /\ i = 0
    /\ undisturbed = TRUE

\* param.set_values(params), whenever it is called: between two runs, or from
\* another thread while a run() is under way
SetValues ==
    \E params \in [conf_thres : ThresholdStrings,
                   google_application_credentials : CredentialPaths] :
        /\ param' = ParamSetValues(params)
        /\ undisturbed' = (undisturbed /\ (pc = "idle" \/ param' = param))
        /\ UNCHANGED <<client, environ, names, output_dict, response, added,
                       stdout, raised, calls, ran, pc, i>>

\* run(), lines 62-75, and on to the call of line 84 unless line 76 is next
RunCall ==
    /\ pc = "idle"
    /\ IF ClientMissing(client) /\ HasCredentials(param.google_application_credentials)
       THEN /\ pc' = "setenv"
            /\ calls' = <<"begin_task_run">>
            /\ raised' = <<>>
            /\ UNCHANGED client
       ELSE \E built, encoded \in BOOLEAN :
              LET r == ConstructAndCall(client, environ, <<"begin_task_run">>,
                                        built, encoded)
              IN  /\ client' = r.client
                  /\ raised' = r.raised
                  /\ calls' = r.calls
                  /\ pc' = r.pc
    /\ response' = <<>>
    /\ added' = <<>>
    /\ stdout' = <<>>
    /\ ran' = TRUE
    /\ undisturbed' = TRUE
    /\ UNCHANGED <<param, environ, names, output_dict, i>>

\* run(), line 76, which reads the credentials again, and on to the call
RunSetEnv ==
    /\ pc = "setenv"
    /\ environ' = param.google_application_credentials
    /\ \E built, encoded \in BOOLEAN :
          LET r == ConstructAndCall(client, param.google_application_credentials,
                                    calls \o <<"os.environ.__setitem__">>,
                                    built, encoded)
          IN  /\ client' = r.client
              /\ raised' = r.raised
              /\ calls' = r.calls
              /\ pc' = r.pc
    /\ UNCHANGED <<param, names, output_dict, response, added, stdout, ran, i,
                   undisturbed>>

\* run(), lines 84-95 from the return of landmark_detection, and lines
\* 118-123 when there is no landmark to loop over
RunReturn ==
    /\ pc = "calling"
    /\ \E answer \in Answers :
        /\ response' = answer
        /\ IF answer = <<>>
           THEN /\ raised' = TransportError
                /\ pc' = "idle"
                /\ UNCHANGED <<output_dict, calls, stdout, i>>
           ELSE IF HasError(answer[1])
           THEN LET a == Abort(answer[1], output_dict.data, calls)
                IN  /\ raised' = a.raised
                    /\ calls' = a.calls
                    /\ output_dict' = [data |-> a.data]
                    /\ pc' = "idle"
                    /\ UNCHANGED <<stdout, i>>
           ELSE LET landmarks == answer[1].landmark_annotations
                IN  /\ stdout' = NoLandmarkNotice(landmarks)
                    /\ raised' = <<>>
                    /\ IF Len(landmarks) = 0
                       THEN /\ output_dict' = [data |-> OutputData(landmarks)]
                            /\ calls' = Finish(calls)
                            /\ pc' = "idle"
                            /\ UNCHANGED i
                       ELSE /\ pc' = "loop"
                            /\ i' = 1
                            /\ UNCHANGED <<output_dict, calls>>
    /\ UNCHANGED <<param, client, environ, names, added, ran, undisturbed>>

\* run(), one iteration of the loop of lines 98-116, which reads conf_thres
\* at line 99, and lines 118-123 after the last one
RunIterate ==
    /\ pc = "loop"
    /\ LET landmarks == response[1].landmark_annotations
           st == ProcessLandmark(landmarks[i], i, param.conf_thres,
                                 [names |-> names, added |-> added,
                                  stdout |-> stdout, calls |-> calls])
       IN  /\ names' = st.names
           /\ added' = st.added
           /\ stdout' = st.stdout
           /\ IF i = Len(landmarks)
              THEN /\ output_dict' = [data |-> OutputData(landmarks)]
                   /\ calls' = Finish(st.calls)
                   /\ pc' = "idle"
                   /\ i' = 0
              ELSE /\ calls' = st.calls
                   /\ i' = i + 1
                   /\ UNCHANGED <<output_dict, pc>>
    /\ UNCHANGED <<param, client, environ, response, raised, ran, undisturbed>>

Next == SetValues \/ RunCall \/ RunSetEnv \/ RunReturn \/ RunIterate

Spec == Init /\ [][Next]_vars

-----------------------------------------------------------------------------
(* Vocabulary of the properties *)

\* The first step of a run(): it starts from "idle" and leaves param alone,
\* while set_values writes nothing but param.
CallStep == pc = "idle" /\ UNCHANGED param

\* The step of run() that executes line 76
SetEnvStep == pc = "setenv" /\ pc' # "setenv"

\* A step of run() that executes one iteration of the loop
IterateStep == pc = "loop" /\ i' # i

\* The latest run() is over and returned normally, and the parameters kept
\* their values while it was under way
HasReturnedUndisturbed == ran /\ pc = "idle" /\ raised = <<>> /\ undisturbed

\* The run() ends in this step by returning
Returned == pc # "idle" /\ pc' = "idle" /\ raised' = <<>>

\* The service answers in this step, with or without an error message
Answered == pc = "calling" /\ response' # <<>>

\* The latest run() is over and returned normally
HasReturned == ran /\ pc = "idle" /\ raised = <<>>

\* Positions of the landmarks whose score is at least the threshold
RetainedPositions(landmarks, conf_thres) ==
    { p \in 1..Len(landmarks) : landmarks[p].score >= conf_thres }

Count(seq, x) == Cardinality({ k \in 1..Len(seq) : seq[k] = x })

Contains(seq, x) == \E k \in 1..Len(seq) : seq[k] = x

Precedes(seq, x, y) ==
    \E j, k \in 1..Len(seq) : j < k /\ seq[j] = x /\ seq[k] = y

Notice == <<"No landmark detected">>

SetEnv == "os.environ.__setitem__"

Construct == "ImageAnnotatorClient"

-----------------------------------------------------------------------------
(* Properties *)

\* C1: when a run() returns during which the parameters kept their values,
\* the number of add_object calls equals the number of annotations with
\* score >= conf_thres; each such annotation yields exactly one call
\* (identified by the id it is given), an annotation with a lower score
\* yields none, and a score equal to conf_thres is retained.  In every run,
\* an iteration adds one box when the score is at least conf_thres as line
\* 99 reads it, and none otherwise.
C1_BoxPerRetained ==
    /\ [][ (Returned /\ undisturbed) =>
             LET l    == response'[1].landmark_annotations
                 keep == RetainedPositions(l, param.conf_thres)
             IN  /\ Len(added') = Cardinality(keep)
                 /\ Count(calls', "add_object") = Cardinality(keep)
                 /\ \A p \in 1..Len(l) :
                       Cardinality({ k \in 1..Len(added') : added'[k].id = p - 1 })
                         = (IF l[p].score >= param.conf_thres THEN 1 ELSE 0) ]_vars
    /\ [][ IterateStep =>
             Len(added') = Len(added) +
                (IF response[1].landmark_annotations[i].score >= param.conf_thres
                 THEN 1 ELSE 0) ]_vars

\* A run returned after the service gave two annotations, one with the score
\* of the threshold (kept) and one below it (dropped).
C1_Witness ==
    /\ HasReturnedUndisturbed
    /\ param.conf_thres = DefaultConfThres
    /\ Len(response[1].landmark_annotations) = 2
    /\ Len(added) = 1
    /\ added[1].confidence = DefaultConfThres
    /\ \E p \in 1..2 : response[1].landmark_annotations[p].score < DefaultConfThres

\* C2: the box given to add_object for an annotation with vertices v0..v3 is
\* (v0.x, v0.y, v1.x - v0.x, v2.y - v0.y): nothing else of the polygon enters,
\* and a negative width or height is passed on as it is.
C2_BoxGeometry ==
    \A k \in 1..Len(added) :
        /\ response # <<>>
        /\ added[k].id + 1 \in 1..Len(response[1].landmark_annotations)
        /\ LET v == response[1].landmark_annotations[added[k].id + 1].bounding_poly.vertices
           IN  /\ added[k].x = v[1].x
               /\ added[k].y = v[1].y
               /\ added[k].w = v[2].x - v[1].x
               /\ added[k].h = v[3].y - v[1].y

\* A box with negative width and height was added for a polygon whose fourth
\* vertex, y1 and x2 differ from the corners the box is made of.
C2_Witness ==
    /\ HasReturned
    /\ \E k \in 1..Len(added) :
          LET v == response[1].landmark_annotations[added[k].id + 1].bounding_poly.vertices
          IN  /\ added[k].w < 0 /\ added[k].h < 0
              /\ v[2].y # v[1].y /\ v[3].x # v[1].x
              /\ v[4].x # v[2].x /\ v[4].y # v[3].y

\* C3 as stated, for the runs in which the service answered: after the run,
\* the "Landmarks" output is the rendering of the annotation list the service
\* returned in it.
C3_Original ==
    (ran /\ pc = "idle" /\ response # <<>>) =>
        output_dict.data = [Landmarks |-> Render(response[1].landmark_annotations)]

\* C3, amended: after a run that returned, the "Landmarks" output is the
\* rendering of the complete annotation list of that run, whatever was
\* kept; no other step writes the output, so during a run and after a run
\* that raised it is what it was before.
C3_AuxAfterReturnedRun ==
    /\ []( HasReturned =>
              output_dict.data = [Landmarks |-> Render(response[1].landmark_annotations)] )
    /\ [][ ~ Returned => output_dict' = output_dict ]_vars

\* A run returned with two annotations rendered and only one of them kept.
C3_Witness ==
    /\ HasReturned
    /\ Len(response[1].landmark_annotations) = 2
    /\ Len(added) = 1
    /\ Len(output_dict.data["Landmarks"]) = 4

\* C4 as stated: the client is the one the first run() constructed, so a run
\* that is over leaves a client, and no later run changes the client or the
\* environment variable.
C4_Original ==
    /\ []( (ran /\ pc = "idle") => client # <<>> )
    /\ [][ (ran /\ pc = "idle") => (client' = client /\ environ' = environ) ]_vars

\* C4, amended: every run() that finds no client calls the constructor once,
\* and the first construction that succeeds is kept: once the client exists
\* no run() constructs again and no step (of a run(), or set_values changing
\* the credentials) changes the client or the environment variable.
C4_ClientKept ==
    /\ []( client # <<>> => ran )
    /\ []( pc \in {"calling", "loop"} => client # <<>> )
    /\ [][ client # <<>> => /\ client' = client
                            /\ environ' = environ
                            /\ CallStep => ~ Contains(calls', Construct) ]_vars
    /\ [][ ((CallStep /\ client = <<>> /\ pc' # "setenv") \/ SetEnvStep) =>
              Count(calls', Construct) = 1 ]_vars

\* The credentials were set after the client was constructed and a later
\* run reused it: the variable is still unset and the client holds what it saw.
C4_Witness ==
    /\ HasReturned
    /\ param.google_application_credentials # ""
    /\ environ = NoEnv
    /\ client = << [credentials |-> NoEnv] >>
    /\ ~ Contains(calls, Construct)
    /\ Contains(calls, "landmark_detection")

\* C5: when the response carries an error message, run() raises an exception
\* whose text contains that message, adds no box and leaves the "Landmarks"
\* output as it was before the run.
C5_ErrorAborts ==
    [][ (Answered /\ HasError(response'[1])) =>
          /\ pc' = "idle"
          /\ raised' # <<>>
          /\ Contains(raised', response'[1].error.message)
          /\ added' = <<>>
          /\ ~ Contains(calls', "add_object")
          /\ ~ Contains(calls', "set_names")
          /\ output_dict' = output_dict ]_vars

\* A run raised on a response that carried an annotation above the threshold,
\* after an earlier run had published a payload.
C5_Witness ==
    /\ ran /\ pc = "idle" /\ Contains(raised, "Invalid image")
    /\ response # <<>>
    /\ response[1].error.message = "Invalid image"
    /\ Len(response[1].landmark_annotations) = 1
    /\ response[1].landmark_annotations[1].score >= DefaultConfThres
    /\ output_dict.data # EmptyDict
    /\ output_dict.data # [Landmarks |-> Render(response[1].landmark_annotations)]

\* C6 as stated: a run that returned without a box, no annotation of which
\* passes the filter, printed the 'No landmark detected' notice.
C6_Original ==
    ( /\ HasReturned
      /\ added = <<>>
      /\ RetainedPositions(response[1].landmark_annotations, param.conf_thres) = {} ) =>
        Contains(stdout, Notice)

\* C6, amended: when the service answers without error, run() returns; an
\* annotation whose score is below conf_thres when the loop looks at it
\* yields no box and no label; the notice is printed exactly when the list
\* the service returned is empty, so not for a non-empty list filtered out
\* entirely.
C6_NoticeOnEmptyList ==
    /\ [][ (IterateStep /\ response[1].landmark_annotations[i].score < param.conf_thres) =>
              /\ added' = added
              /\ names' = names
              /\ raised' = <<>> ]_vars
    /\ []( (ran /\ pc = "idle" /\ response # <<>>) =>
              (raised = <<>>) = ~ HasError(response[1]) )
    /\ []( (ran /\ pc \in {"idle", "loop"} /\ raised = <<>>) =>
              Contains(stdout, Notice) = (Len(response[1].landmark_annotations) = 0) )
    /\ []( HasReturned => calls[Len(calls)] = "end_task_run" )

\* A run returned without a box and without the notice: the list was not
\* empty and every score was below the threshold.
C6_Witness ==
    /\ HasReturned
    /\ added = <<>>
    /\ Len(response[1].landmark_annotations) = 2
    /\ stdout = <<>>

\* C7: when a run() returns during which the parameters kept their values,
\* the labels the added boxes carry (each resolved through class index 0
\* from the names set_names registered just before) are the descriptions of
\* the annotations with score >= conf_thres, and set_names was called once
\* per such annotation.  In every run each box carries its own annotation's
\* description, and an iteration calls set_names once when the score is at
\* least conf_thres as line 99 reads it, and not otherwise.
C7_Labels ==
    /\ [][ (Returned /\ undisturbed) =>
             LET l    == response'[1].landmark_annotations
                 keep == RetainedPositions(l, param.conf_thres)
             IN  /\ { added'[k].label : k \in 1..Len(added') }
                      = { l[p].description : p \in keep }
                 /\ Count(calls', "set_names") = Cardinality(keep) ]_vars
    /\ [][ Returned =>
             \A k \in 1..Len(added') :
                added'[k].label
                  = response'[1].landmark_annotations[added'[k].id + 1].description ]_vars
    /\ [][ IterateStep =>
             LET landmark == response[1].landmark_annotations[i] IN
             IF landmark.score >= param.conf_thres
             THEN /\ Count(calls', "set_names") = Count(calls, "set_names") + 1
                  /\ names' = << landmark.description >>
             ELSE /\ Count(calls', "set_names") = Count(calls, "set_names")
                  /\ names' = names ]_vars

\* Two boxes with different labels were added.
C7_Witness ==
    /\ HasReturnedUndisturbed
    /\ Len(added) = 2
    /\ added[1].label # added[2].label
    /\ Count(calls, "set_names") = 2

\* C8 as stated, for the runs in which the service answered: the run, the
\* one that raises on a service error included, calls begin_task_run,
\* emit_step_progress and end_task_run once each.
C8_Original ==
    (ran /\ pc = "idle" /\ response # <<>>) =>
        /\ Count(calls, "begin_task_run") = 1
        /\ Count(calls, "emit_step_progress") = 1
        /\ Count(calls, "end_task_run") = 1

\* C8, amended: every run() calls begin_task_run once, first; a run that
\* returns then calls emit_step_progress once and end_task_run once, last and
\* in that order; a run that ends by an exception (the service error, or a
\* failure of the constructor, of the encoding or of the call) calls neither,
\* and neither is called before the run returns.
C8_SignalsOnReturn ==
    ran => /\ Count(calls, "begin_task_run") = 1
           /\ calls[1] = "begin_task_run"
           /\ (pc = "idle" /\ response # <<>>) =>
                (raised # <<>>) = HasError(response[1])
           /\ HasReturned =>
                /\ Count(calls, "emit_step_progress") = 1
                /\ Count(calls, "end_task_run") = 1
                /\ calls[Len(calls) - 1] = "emit_step_progress"
                /\ calls[Len(calls)] = "end_task_run"
           /\ ~ HasReturned =>
                /\ Count(calls, "emit_step_progress") = 0
                /\ Count(calls, "end_task_run") = 0

\* A run returned after adding two boxes, and signalled once.
C8_Witness ==
    /\ HasReturned
    /\ Len(added) = 2
    /\ Count(calls, "end_task_run") = 1

\* C9 as stated: the k-th added box (from 0) has id k.
C9_Original ==
    HasReturned => \A k \in 1..Len(added) : added[k].id = k - 1

\* C9, amended: the boxes are added in the order of the service's list, each
\* with class index 0, with the score of its annotation and with the id of
\* its annotation's position in the complete list returned by the service
\* (from 0), so ids skip the positions of the annotations dropped.
C9_IdIsListPosition ==
    /\ [][ (IterateStep /\ added' # added) =>
              /\ Len(added') = Len(added) + 1
              /\ \A k \in 1..Len(added) : added'[k] = added[k]
              /\ added'[Len(added')].id = i - 1 ]_vars
    /\ []( \A k \in 1..Len(added) :
              /\ response # <<>>
              /\ added[k].id + 1 \in 1..Len(response[1].landmark_annotations)
              /\ added[k].class_index = ClassIndex
              /\ added[k].confidence
                   = response[1].landmark_annotations[added[k].id + 1].score
              /\ \A j \in 1..(k - 1) : added[j].id < added[k].id )

\* The only box added has id 1: the annotation before it was dropped.
C9_Witness ==
    /\ HasReturned
    /\ Len(added) = 1
    /\ added[1].id = 1

\* C10: a run that finds no client and a non-empty configured path sets the
\* environment variable before it calls the constructor, to the path as line
\* 76 reads it, so a client it constructs is constructed with the variable
\* equal to that path; when the parameters kept their values since the run
\* began that path is the non-empty one line 75 tested.  With an empty path
\* the variable is not written; a run that finds the client never writes the
\* variable.
C10_EnvBeforeClient ==
    [][ LET cred == param.google_application_credentials IN
        /\ CallStep =>
             IF client = <<>>
             THEN IF cred # ""
                  THEN /\ pc' = "setenv"
                       /\ environ' = environ
                       /\ client' = client
                       /\ ~ Contains(calls', Construct)
                  ELSE /\ pc' # "setenv"
                       /\ environ' = environ
                       /\ ~ Contains(calls', SetEnv)
                       /\ Count(calls', Construct) = 1
                       /\ client' # <<>> => client'[1].credentials = environ
             ELSE /\ pc' # "setenv"
                  /\ environ' = environ
                  /\ ~ Contains(calls', SetEnv)
                  /\ ~ Contains(calls', Construct)
        /\ SetEnvStep =>
             /\ client = <<>>
             /\ undisturbed => cred # ""
             /\ environ' = cred
             /\ Count(calls', SetEnv) = 1
             /\ Count(calls', Construct) = 1
             /\ Precedes(calls', SetEnv, Construct)
             /\ client' # <<>> => client'[1].credentials = cred ]_vars

\* The client was constructed in the latest run with the variable already set
\* to the configured path.
C10_Witness ==
    /\ ran /\ undisturbed
    /\ param.google_application_credentials = "/keys/a.json"
    /\ environ = "/keys/a.json"
    /\ client = << [credentials |-> "/keys/a.json"] >>
    /\ Precedes(calls, SetEnv, Construct)

====
